---- MODULE Spec2Model ----
(***************************************************************************)
(* Model of tauri-client/creator.py: a straight-line script that writes    *)
(* two fixed build scripts (minimal-build.sh, minimal-build.bat) into the  *)
(* current working directory, marks the first one executable and prints a  *)
(* confirmation line after each.                                           *)
(*                                                                         *)
(* File contents are sequences of text lines (each line carries its        *)
(* verbatim text and its syntactic kind in the shell dialect it is written *)
(* in).  Characters outside ASCII are written <U+XXXX> in the line text.   *)
(* The filesystem follows POSIX: open(name, 'w') is O_WRONLY|O_CREAT|      *)
(* O_TRUNC with creation mode 0666 & ~umask, os.chmod needs ownership.     *)
(***************************************************************************)
EXTENDS Integers, Sequences, FiniteSets

VARIABLES
  fs,          \* the working directory: file name -> file record or NoFile
  env,         \* the process environment: [umask, dirWritable]
  pc,          \* position of the emitter in creator.py
  f,           \* the file object bound to `f`: [name, buf, pos] or NoHandle
  openFds,     \* names of the files whose OS-level descriptor is open
  exc,         \* the exception that ended the run, or NoExc
  stdout,      \* lines printed by the current run
  run,         \* number of the current run of the emitter (1, 2, ...)
  opens,       \* file name -> number of open() calls made by the current run
  fsStart,     \* the directory as it was before the first run
  fsPrev,      \* the directory as the previous completed run left it
  x,           \* the shell that is executing a generated script, or Idle
  results      \* file name -> outcome of the last execution of that script

emitterVars == <<fs, env, pc, f, openFds, exc, stdout, run, opens, fsStart, fsPrev>>
execVars == <<x, results>>
vars == <<fs, env, pc, f, openFds, exc, stdout, run, opens, fsStart, fsPrev, x, results>>

----------------------------------------------------------------------------
(* Bounds of the model *)

\* longest run of unrelated lines in (or after the template in) an old file
MaxOldLen == 1
\* a failing flush leaves at most this many lines of the buffer in the file
MaxPartial == 1
\* runs of the emitter in succession
MaxRuns == 2
\* exit statuses of the external commands range over 0..MaxStatus
MaxStatus == 2

----------------------------------------------------------------------------
(* The two templates *)

L(k, t) == [kind |-> k, text |-> t]

minimal_build_script ==
  <<
    L("comment", "#!/bin/bash"),   \* 2
    L("comment", "# minimal-build.sh - Build the simple desktop app"),   \* 3
    L("blank", ""),   \* 4
    L("echo", "echo \"<U+1F3D7><U+FE0F>  Building Simple P2P Notebook Desktop App\""),   \* 5
    L("echo", "echo \"============================================\""),   \* 6
    L("blank", ""),   \* 7
    L("comment", "# Clean first"),   \* 8
    L("echo", "echo \"<U+1F9F9> Cleaning previous builds...\""),   \* 9
    L("clean", "cargo clean"),   \* 10
    L("blank", ""),   \* 11
    L("echo", "echo \"\""),   \* 12
    L("echo", "echo \"<U+1F980> Building Rust desktop app...\""),   \* 13
    L("blank", ""),   \* 14
    L("comment", "# Build the app"),   \* 15
    L("if_build", "if cargo tauri build; then"),   \* 16
    L("echo", "    echo \"\""),   \* 17
    L("echo", "    echo \"<U+1F389> SUCCESS! Desktop app built successfully!\""),   \* 18
    L("echo", "    echo \"\""),   \* 19
    L("echo", "    echo \"<U+1F4E6> Your app is ready in src-tauri/target/release/bundle/\""),   \* 20
    L("echo", "    echo \"\""),   \* 21
    L("echo", "    echo \"<U+1F680> To run in development mode:\""),   \* 22
    L("echo", "    echo \"   cargo tauri dev\""),   \* 23
    L("echo", "    echo \"\""),   \* 24
    L("echo", "    echo \"<U+2705> What you have now:\""),   \* 25
    L("echo", "    echo \"   - Native desktop application\""),   \* 26
    L("echo", "    echo \"   - Simple document editor\" "),   \* 27
    L("echo", "    echo \"   - Basic UI with placeholders\""),   \* 28
    L("echo", "    echo \"   - Ready for P2P features\""),   \* 29
    L("echo", "    echo \"   - Ready for authentication\""),   \* 30
    L("else", "else"),   \* 31
    L("echo", "    echo \"\""),   \* 32
    L("echo", "    echo \"<U+274C> Build failed. Check the error above.\""),   \* 33
    L("echo", "    echo \"\""),   \* 34
    L("echo", "    echo \"<U+1F527> Common fixes:\""),   \* 35
    L("echo", "    echo \"   1. Make sure you're in the project root\""),   \* 36
    L("echo", "    echo \"   2. Run: rustup update\""),   \* 37
    L("echo", "    echo \"   3. Run: cargo install @tauri-apps/cli@^2.0.0\""),   \* 38
    L("echo", "    echo \"   4. Check system dependencies (Linux)\""),   \* 39
    L("fi", "fi")   \* 40
  >>

minimal_build_bat ==
  <<
    L("echo_off", "@echo off"),   \* 52
    L("comment", "REM minimal-build.bat - Build the simple desktop app"),   \* 53
    L("blank", ""),   \* 54
    L("echo", "echo <U+1F3D7><U+FE0F>  Building Simple P2P Notebook Desktop App"),   \* 55
    L("echo", "echo ============================================"),   \* 56
    L("blank", ""),   \* 57
    L("comment", "REM Clean first"),   \* 58
    L("echo", "echo <U+1F9F9> Cleaning previous builds..."),   \* 59
    L("clean", "cargo clean"),   \* 60
    L("blank", ""),   \* 61
    L("echo", "echo."),   \* 62
    L("echo", "echo <U+1F980> Building Rust desktop app..."),   \* 63
    L("blank", ""),   \* 64
    L("comment", "REM Build the app"),   \* 65
    L("build", "cargo tauri build"),   \* 66
    L("blank", ""),   \* 67
    L("if_errorlevel", "if %ERRORLEVEL% EQU 0 ("),   \* 68
    L("echo", "    echo."),   \* 69
    L("echo", "    echo <U+1F389> SUCCESS! Desktop app built successfully!"),   \* 70
    L("echo", "    echo."),   \* 71
    L("echo", "    echo <U+1F4E6> Your app is ready in src-tauri/target/release/bundle/"),   \* 72
    L("echo", "    echo."),   \* 73
    L("echo", "    echo <U+1F680> To run in development mode:"),   \* 74
    L("echo", "    echo    cargo tauri dev"),   \* 75
    L("echo", "    echo."),   \* 76
    L("echo", "    echo <U+2705> What you have now:"),   \* 77
    L("echo", "    echo    - Native desktop application"),   \* 78
    L("echo", "    echo    - Simple document editor"),   \* 79
    L("echo", "    echo    - Basic UI with placeholders"),   \* 80
    L("echo", "    echo    - Ready for P2P features"),   \* 81
    L("echo", "    echo    - Ready for authentication"),   \* 82
    L("else", ") else ("),   \* 83
    L("echo", "    echo."),   \* 84
    L("echo", "    echo <U+274C> Build failed. Check the error above."),   \* 85
    L("echo", "    echo."),   \* 86
    L("echo", "    echo <U+1F527> Common fixes:"),   \* 87
    L("echo", "    echo    1. Make sure you're in the project root"),   \* 88
    L("echo", "    echo    2. Run: rustup update"),   \* 89
    L("echo", "    echo    3. Run: cargo install @tauri-apps/cli@^2.0.0"),   \* 90
    L("echo", "    echo    4. Restart command prompt as administrator"),   \* 91
    L("fi", ")"),   \* 92
    L("blank", ""),   \* 93
    L("pause", "pause")   \* 94
  >>

ShName == "minimal-build.sh"
BatName == "minimal-build.bat"
OtherName == "notes.txt"
Names == {ShName, BatName, OtherName}

ConfirmSh == "<U+2713> Created minimal-build.sh"
ConfirmBat == "<U+2713> Created minimal-build.bat"

----------------------------------------------------------------------------
(* Filesystem primitives used by the emitter *)

NoFile == [absent |-> TRUE]
NoHandle == [closed |-> TRUE]
NoExc == [none |-> TRUE]
Me == "me"
Other == "other"

RECURSIVE BitAnd(_, _)
BitAnd(a, b) ==
  IF a = 0 \/ b = 0 THEN 0
  ELSE (a % 2) * (b % 2) + 2 * BitAnd(a \div 2, b \div 2)

\* permission bits
S_IXUSR == 64      \* 0o100
S_IWUSR == 128     \* 0o200
S_IWOTH == 2       \* 0o002
AllPerms == 511    \* 0o777
CreateMode == 438  \* 0o666, the mode open() passes when it creates a file

\* the mode argument of os.chmod('minimal-build.sh', 0o755)
ChmodMode_NoExec == 420   \* 0o644
ChmodMode == 493          \* 0o755

\* mode of a file that open(name, 'w') creates
NewFileMode(umask) == BitAnd(CreateMode, AllPerms - umask)

\* may this process open the existing file for writing?
WritableByMe(file) ==
  IF file.owner = Me THEN BitAnd(file.mode, S_IWUSR) # 0
  ELSE BitAnd(file.mode, S_IWOTH) # 0

\* does open(name, 'w') succeed?
CanOpenW(dir, e, name) ==
  IF dir[name] = NoFile THEN e.dirWritable ELSE WritableByMe(dir[name])

\* what the mode string of open() does to the content and where writing starts
OpenModeA(content) == [content |-> content, pos |-> Len(content)]
OpenModeRPlus(content) == [content |-> content, pos |-> 0]
OpenModeW(content) == [content |-> <<>>, pos |-> 0]

\* the file after a successful open(name, 'w')
OpenedFile(dir, e, name) ==
  IF dir[name] = NoFile
  THEN [content |-> <<>>, mode |-> NewFileMode(e.umask), owner |-> Me]
  ELSE [dir[name] EXCEPT !.content = OpenModeW(dir[name].content).content]

OpenedPos(dir, name) ==
  IF dir[name] = NoFile THEN 0 ELSE OpenModeW(dir[name].content).pos

\* f.write(s): the text is appended to the file object's buffer
BufferedWrite_Lost(buf, s) == buf
BufferedWrite(buf, s) == buf \o s

\* flushing `data` at offset `pos` of a file holding `content`
FlushTo_DropLast(content, pos, data) ==
  IF data = <<>> THEN content
  ELSE SubSeq(content, 1, pos) \o SubSeq(data, 1, Len(data) - 1)
         \o SubSeq(content, pos + Len(data), Len(content))
FlushTo(content, pos, data) ==
  SubSeq(content, 1, pos) \o data
    \o SubSeq(content, pos + Len(data) + 1, Len(content))

\* descriptors open after the with-block of `name` is left; ok tells whether
\* the flush done by close() succeeded
FdsAfterExit_LeakOnError(fds, name, ok) == IF ok THEN fds \ {name} ELSE fds
FdsAfterExit(fds, name, ok) == fds \ {name}

\* os.chmod succeeds only on a file the process owns
ChmodAllowed(file) == file.owner = Me

\* print(line)
StdoutAfter_Nothing(out, line) == out
StdoutAfter(out, line) == Append(out, line)

\* an uncaught exception ends the script; `next` is the statement that would
\* have followed
OnError_Swallow(next) == next
OnError(next) == "failed"

----------------------------------------------------------------------------
(* Initial states: any directory the emitter may be started in *)

Template(name) == IF name = ShName THEN minimal_build_script ELSE minimal_build_bat

OldLine == L("echo", "echo old")

RECURSIVE OldLines(_)
OldLines(n) == IF n = 0 THEN <<>> ELSE <<OldLine>> \o OldLines(n - 1)

\* contents an existing file may have: shorter than the template, the
\* template itself, and the template followed by further lines (longer)
OldContents(name) ==
  {OldLines(n) : n \in 0..MaxOldLen}
    \cup {Template(name) \o OldLines(n) : n \in 0..MaxOldLen}

\* owner and mode of an existing file: 0o644, 0o755, 0o444 of this user;
\* 0o666, 0o644 of another user
OldPerms ==
  { [owner |-> Me, mode |-> 420], [owner |-> Me, mode |-> 493],
    [owner |-> Me, mode |-> 292],
    [owner |-> Other, mode |-> 438], [owner |-> Other, mode |-> 420] }

OldFiles(name) ==
  { [content |-> c, mode |-> p.mode, owner |-> p.owner] :
      c \in OldContents(name), p \in OldPerms }

OtherFile == [content |-> <<OldLine>>, mode |-> 420, owner |-> Me]

\* 0o022 and 0o077
Umasks == {18, 63}

Dirs ==
  { [n \in Names |->
       IF n = ShName THEN s ELSE IF n = BatName THEN b ELSE o] :
      s \in OldFiles(ShName) \cup {NoFile},
      b \in OldFiles(BatName) \cup {NoFile},
      o \in {OtherFile, NoFile} }

Idle == [script |-> "none"]
NoResult == [ran |-> FALSE]

Init ==
  /\ fs \in Dirs
  /\ env \in [umask : Umasks, dirWritable : BOOLEAN]
  /\ pc = "open_sh"
  /\ f = NoHandle
  /\ openFds = {}
  /\ exc = NoExc
  /\ stdout = <<>>
  /\ run = 1
  /\ opens = [n \in Names |-> 0]
  /\ fsStart = fs
  /\ fsPrev = fs
  /\ x = Idle
  /\ results = [n \in {ShName, BatName} |-> NoResult]

----------------------------------------------------------------------------
(* The emitter, statement by statement *)

\* the order of the statements of creator.py
StatementAfter_PrintEarly(here) ==
  CASE here = "open_sh" -> "print_sh"
    [] here = "print_sh" -> "write_sh"
    [] here = "write_sh" -> "exit_sh"
    [] here = "exit_sh" -> "chmod_sh"
    [] here = "chmod_sh" -> "open_bat"
    [] here = "open_bat" -> "print_bat"
    [] here = "print_bat" -> "write_bat"
    [] here = "write_bat" -> "exit_bat"
    [] here = "exit_bat" -> "done"
StatementAfter(here) ==
  CASE here = "open_sh" -> "write_sh"
    [] here = "write_sh" -> "exit_sh"
    [] here = "exit_sh" -> "chmod_sh"
    [] here = "chmod_sh" -> "print_sh"
    [] here = "print_sh" -> "open_bat"
    [] here = "open_bat" -> "write_bat"
    [] here = "write_bat" -> "exit_bat"
    [] here = "exit_bat" -> "print_bat"
    [] here = "print_bat" -> "done"

\* with open(name, 'w') as f:        -- the open() call
Open(name, here) ==
  /\ pc = here
  /\ opens' = [opens EXCEPT ![name] = @ + 1]
  /\ \/ /\ CanOpenW(fs, env, name)
        /\ fs' = [fs EXCEPT ![name] = OpenedFile(fs, env, name)]
        /\ f' = [name |-> name, buf |-> <<>>, pos |-> OpenedPos(fs, name)]
        /\ openFds' = openFds \cup {name}
        /\ pc' = StatementAfter(here)
        /\ UNCHANGED exc
     \/ /\ ~CanOpenW(fs, env, name)
        /\ exc' = [at |-> here, file |-> name]
        /\ pc' = OnError(StatementAfter(here))
        /\ UNCHANGED <<fs, f, openFds>>
  /\ UNCHANGED <<env, stdout, run, fsStart, fsPrev, x, results>>

\*     f.write(template)
Write(data, here) ==
  /\ pc = here
  /\ f' = [f EXCEPT !.buf = BufferedWrite(f.buf, data)]
  /\ pc' = StatementAfter(here)
  /\ UNCHANGED <<fs, env, openFds, exc, stdout, run, opens, fsStart, fsPrev, x, results>>

\* leaving the with-block: f.close() flushes the buffer into the file and
\* releases the descriptor; a flush that fails part-way (disk full, I/O
\* error) leaves a prefix of the buffer in the file and raises
Exit(here) ==
  /\ pc = here
  /\ \/ /\ fs' = [fs EXCEPT ![f.name].content = FlushTo(@, f.pos, f.buf)]
        /\ openFds' = FdsAfterExit(openFds, f.name, TRUE)
        /\ pc' = StatementAfter(here)
        /\ UNCHANGED exc
     \/ \E k \in 0..MaxPartial :
        /\ k < Len(f.buf)
        /\ fs' = [fs EXCEPT ![f.name].content = FlushTo(@, f.pos, SubSeq(f.buf, 1, k))]
        /\ openFds' = FdsAfterExit(openFds, f.name, FALSE)
        /\ exc' = [at |-> here, file |-> f.name]
        /\ pc' = OnError(StatementAfter(here))
  /\ f' = [f EXCEPT !.buf = <<>>]
  /\ UNCHANGED <<env, stdout, run, opens, fsStart, fsPrev, x, results>>

\* os.chmod(name, 0o755)
Chmod(name, here) ==
  /\ pc = here
  /\ \/ /\ ChmodAllowed(fs[name])
        /\ fs' = [fs EXCEPT ![name].mode = ChmodMode]
        /\ pc' = StatementAfter(here)
        /\ UNCHANGED exc
     \/ /\ ~ChmodAllowed(fs[name])
        /\ exc' = [at |-> here, file |-> name]
        /\ pc' = OnError(StatementAfter(here))
        /\ UNCHANGED fs
  /\ UNCHANGED <<env, f, openFds, stdout, run, opens, fsStart, fsPrev, x, results>>

\* print(line)
PrintLine(line, here) ==
  /\ pc = here
  /\ stdout' = StdoutAfter(stdout, line)
  /\ pc' = StatementAfter(here)
  /\ UNCHANGED <<fs, env, f, openFds, exc, run, opens, fsStart, fsPrev, x, results>>

OpenSh == Open(ShName, "open_sh")
WriteSh == Write(minimal_build_script, "write_sh")
ExitSh == Exit("exit_sh")
ChmodSh == Chmod(ShName, "chmod_sh")
PrintSh == PrintLine(ConfirmSh, "print_sh")
OpenBat == Open(BatName, "open_bat")
WriteBat == Write(minimal_build_bat, "write_bat")
ExitBat == Exit("exit_bat")
PrintBat == PrintLine(ConfirmBat, "print_bat")

\* the emitter is started again in the same directory after a completed run
Rerun ==
  /\ pc = "done"
  /\ run < MaxRuns
  /\ run' = run + 1
  /\ pc' = "open_sh"
  /\ f' = NoHandle
  /\ stdout' = <<>>
  /\ opens' = [n \in Names |-> 0]
  /\ fsPrev' = fs
  /\ UNCHANGED <<fs, env, openFds, exc, fsStart, x, results>>

Next ==
  \/ OpenSh \/ WriteSh \/ ExitSh \/ ChmodSh \/ PrintSh
  \/ OpenBat \/ WriteBat \/ ExitBat \/ PrintBat
  \/ Rerun

Spec == Init /\ [][Next]_vars

----------------------------------------------------------------------------
(* Running a generated script: the shell executes the file line by line *)

ExitStatuses == 0..MaxStatus

\* the directory a run of the emitter in an empty writable directory leaves
EmittedFile(name, e) ==
  LET d0 == [n \in Names |-> NoFile]
      opened == OpenedFile(d0, e, name)
      data == BufferedWrite(<<>>, Template(name))
  IN  [opened EXCEPT !.content = FlushTo(opened.content, OpenedPos(d0, name), data)]

EmittedDir(e) ==
  [n \in Names |->
     IF n = ShName THEN [EmittedFile(ShName, e) EXCEPT !.mode = ChmodMode]
     ELSE IF n = BatName THEN EmittedFile(BatName, e)
     ELSE NoFile]

ExecInit ==
  /\ env \in [umask : Umasks, dirWritable : {TRUE}]
  /\ fs = EmittedDir(env)
  /\ pc = "done"
  /\ f = [name |-> BatName, buf |-> <<>>, pos |-> 0]
  /\ openFds = {}
  /\ exc = NoExc
  /\ stdout = StdoutAfter(StdoutAfter(<<>>, ConfirmSh), ConfirmBat)
  /\ run = 1
  /\ opens = [n \in Names |-> IF n = OtherName THEN 0 ELSE 1]
  /\ fsStart = [n \in Names |-> NoFile]
  /\ fsPrev = [n \in Names |-> NoFile]
  /\ x = Idle
  /\ results = [n \in {ShName, BatName} |-> NoResult]

\* index of the first line of the given kind after line ip (0 if none)
RECURSIVE NextOfKind(_, _, _)
NextOfKind(lines, ip, kind) ==
  IF ip >= Len(lines) THEN 0
  ELSE IF lines[ip + 1].kind = kind THEN ip + 1
  ELSE NextOfKind(lines, ip + 1, kind)

\* bash: `if cargo tauri build; then` takes the then-branch iff the command
\* exits with status 0
IfBuildTaken(status) == status = 0

\* cmd: `if %ERRORLEVEL% EQU 0 (` takes the first block iff ERRORLEVEL is 0
IfErrorlevelTaken_Neq(status) == status # 0
IfErrorlevelTaken(status) == status = 0

\* the status after an echo: bash sets $? to 0, cmd leaves ERRORLEVEL alone
StatusAfterEcho(script, status) == IF script = ShName THEN 0 ELSE status

Running == x # Idle /\ x.ip <= Len(x.lines)
Cur == x.lines[x.ip]

\* a human starts a generated script (./minimal-build.sh needs the
\* owner-executable bit); the shell reads the file from the directory
Launch(name) ==
  /\ x = Idle
  /\ ~results[name].ran
  /\ fs[name] # NoFile
  /\ name = ShName => BitAnd(fs[name].mode, S_IXUSR) # 0
  /\ x' = [script |-> name, lines |-> fs[name].content, ip |-> 1, status |-> 0,
           cmds |-> <<>>, out |-> <<>>]
  /\ UNCHANGED results
  /\ UNCHANGED emitterVars

\* a comment, a blank line, @echo off, pause, fi or the closing parenthesis
ExecNoop ==
  /\ Running
  /\ Cur.kind \in {"comment", "blank", "echo_off", "pause", "fi"}
  /\ x' = [x EXCEPT !.ip = @ + 1]
  /\ UNCHANGED results
  /\ UNCHANGED emitterVars

ExecEcho ==
  /\ Running
  /\ Cur.kind = "echo"
  /\ x' = [x EXCEPT !.ip = @ + 1, !.out = Append(@, Cur),
                    !.status = StatusAfterEcho(x.script, @)]
  /\ UNCHANGED results
  /\ UNCHANGED emitterVars

\* cargo clean, and cargo tauri build as a statement of its own (batch):
\* the command runs and its exit status is kept; execution goes on
ExecCommand ==
  /\ Running
  /\ Cur.kind \in {"clean", "build"}
  /\ \E s \in ExitStatuses :
       x' = [x EXCEPT !.ip = @ + 1, !.status = s,
                      !.cmds = Append(@, [cmd |-> Cur.kind, status |-> s])]
  /\ UNCHANGED results
  /\ UNCHANGED emitterVars

\* if cargo tauri build; then
ExecIfBuild ==
  /\ Running
  /\ Cur.kind = "if_build"
  /\ \E s \in ExitStatuses :
       x' = [x EXCEPT !.status = s,
                      !.cmds = Append(@, [cmd |-> "build", status |-> s]),
                      !.ip = IF IfBuildTaken(s) THEN @ + 1
                             ELSE NextOfKind(x.lines, @, "else") + 1]
  /\ UNCHANGED results
  /\ UNCHANGED emitterVars

\* if %ERRORLEVEL% EQU 0 (
ExecIfErrorlevel ==
  /\ Running
  /\ Cur.kind = "if_errorlevel"
  /\ x' = [x EXCEPT !.ip = IF IfErrorlevelTaken(x.status) THEN @ + 1
                           ELSE NextOfKind(x.lines, @, "else") + 1]
  /\ UNCHANGED results
  /\ UNCHANGED emitterVars

\* else reached at the end of the first block: the second block is skipped
ExecElse ==
  /\ Running
  /\ Cur.kind = "else"
  /\ x' = [x EXCEPT !.ip = NextOfKind(x.lines, @, "fi") + 1]
  /\ UNCHANGED results
  /\ UNCHANGED emitterVars

\* the end of the file is reached
Finish ==
  /\ x # Idle
  /\ x.ip > Len(x.lines)
  /\ results' = [results EXCEPT ![x.script] =
                   [ran |-> TRUE, cmds |-> x.cmds, out |-> x.out]]
  /\ x' = Idle
  /\ UNCHANGED emitterVars

ExecNext ==
  \/ \E name \in {ShName, BatName} : Launch(name)
  \/ ExecNoop \/ ExecEcho \/ ExecCommand
  \/ ExecIfBuild \/ ExecIfErrorlevel \/ ExecElse
  \/ Finish

SpecExec == ExecInit /\ [][ExecNext]_vars

----------------------------------------------------------------------------
(* Properties of the emitter *)

Exists(name) == fs[name] # NoFile
OwnerExecutable(file) == BitAnd(file.mode, S_IXUSR) # 0
EmptyStart == \A n \in Names : fsStart[n] = NoFile
\* the mode the file had when the current run began (its creation mode if
\* it did not exist)
ModeBefore(dir, name) ==
  IF dir[name] = NoFile THEN NewFileMode(env.umask) ELSE dir[name].mode

\* has the with-block of the file been left without an error in this run?
Written(name) ==
  IF name = ShName
  THEN \/ pc \in {"chmod_sh", "print_sh", "open_bat", "write_bat", "exit_bat",
                  "print_bat", "done"}
       \/ pc = "failed" /\ exc.at \in {"chmod_sh", "open_bat", "exit_bat"}
  ELSE pc \in {"print_bat", "done"}

\* C1: from any initial state of the directory (minimal-build.sh absent, or
\* present with any content), once the emitter has written minimal-build.sh,
\* and so after every completed run, the file exists and its content is
\* exactly the Unix template minimal_build_script.
C1_ShHoldsTemplate ==
  Written(ShName) =>
    /\ Exists(ShName)
    /\ fs[ShName].content = minimal_build_script

C1_Witness ==
  /\ pc = "done"
  /\ run = 1
  /\ fsStart[ShName] = NoFile
  /\ fs[ShName].content = minimal_build_script

\* C2: from any initial state of the directory, once the emitter has
\* written minimal-build.bat, and so after every completed run, the file
\* exists and its content is exactly the Windows template minimal_build_bat.
C2_BatHoldsTemplate ==
  Written(BatName) =>
    /\ Exists(BatName)
    /\ fs[BatName].content = minimal_build_bat

C2_Witness ==
  /\ pc = "done"
  /\ run = 1
  /\ fsStart[BatName] # NoFile
  /\ fsStart[BatName].content # minimal_build_bat
  /\ fs[BatName].content = minimal_build_bat

\* C3: after the chmod statement minimal-build.sh is owner-executable
\* whatever its mode was; the mode is changed only after the content has
\* been written and the file closed (until then it is the mode the file had
\* before the run); minimal-build.bat keeps the mode it had before the first
\* run, or the mode file creation gave it.
C3_ShExecutableBatModeUntouched ==
  /\ pc \in {"print_sh", "open_bat", "write_bat", "exit_bat", "print_bat", "done"}
       => OwnerExecutable(fs[ShName])
  /\ pc \in {"write_sh", "exit_sh", "chmod_sh"}
       => fs[ShName].mode = ModeBefore(fsPrev, ShName)
  /\ pc = "chmod_sh"
       => fs[ShName].content = minimal_build_script /\ ShName \notin openFds
  /\ Exists(BatName) => fs[BatName].mode = ModeBefore(fsStart, BatName)

C3_Witness ==
  /\ pc = "done"
  /\ run = 1
  /\ fsStart[ShName] # NoFile
  /\ ~OwnerExecutable(fsStart[ShName])
  /\ OwnerExecutable(fs[ShName])
  /\ fsStart[BatName] # NoFile
  /\ fs[BatName].mode = fsStart[BatName].mode

\* C4: a second (or later) completed run leaves the directory exactly as the
\* previous completed run left it: same content of both files, same modes,
\* nothing accumulated.
C4_Idempotent ==
  (pc = "done" /\ run >= 2) => fs = fsPrev

C4_Witness ==
  /\ pc = "done"
  /\ run = 2
  /\ fsStart[ShName] # NoFile
  /\ fsStart[ShName].content # minimal_build_script
  /\ fs = fsPrev

\* C5: if minimal-build.sh or minimal-build.bat existed with other content,
\* shorter or longer than the template, then after the run its content is
\* exactly the template: same length, and none of the old lines is left.
C5_FullyOverwritten ==
  (pc = "done" /\ run = 1) =>
    \A n \in {ShName, BatName} :
      (fsStart[n] # NoFile /\ fsStart[n].content # Template(n)) =>
        /\ fs[n].content = Template(n)
        /\ Len(fs[n].content) = Len(Template(n))
        /\ \A i \in 1..Len(fs[n].content) : fs[n].content[i] # OldLine

C5_Witness ==
  /\ pc = "done"
  /\ run = 1
  /\ fsStart[ShName] # NoFile
  /\ Len(fsStart[ShName].content) > Len(minimal_build_script)
  /\ fsStart[BatName] # NoFile
  /\ Len(fsStart[BatName].content) \in 1..(Len(minimal_build_bat) - 1)
  /\ fs[ShName].content = minimal_build_script
  /\ fs[BatName].content = minimal_build_bat

\* C6: a completed run in an empty directory leaves exactly the two files
\* minimal-build.sh and minimal-build.bat and has printed exactly two lines,
\* the one for minimal-build.sh first; no run ever touches another file.
C6_EmptyDirectory ==
  /\ (pc = "done" /\ run = 1 /\ EmptyStart) =>
       /\ {n \in Names : Exists(n)} = {"minimal-build.sh", "minimal-build.bat"}
       /\ stdout = << "<U+2713> Created minimal-build.sh",
                      "<U+2713> Created minimal-build.bat" >>
  /\ \A n \in Names \ {"minimal-build.sh", "minimal-build.bat"} : fs[n] = fsStart[n]

C6_Witness ==
  /\ pc = "done"
  /\ run = 1
  /\ EmptyStart
  /\ Exists(ShName)
  /\ Exists(BatName)
  /\ Len(stdout) = 2

\* C7 (as claimed): a failure while opening, writing or chmod-ing
\* minimal-build.sh does not prevent minimal-build.bat, which could be
\* opened for writing, from being written with its template.
C7_WritesIndependent ==
  (pc = "failed" /\ exc.file = ShName /\ CanOpenW(fs, env, BatName)) =>
    /\ Exists(BatName)
    /\ fs[BatName].content = minimal_build_bat

\* C7 (amended): a filesystem error is surfaced at once and ends the whole
\* run; nothing is retried (no file is opened twice in a run); after a
\* failure on minimal-build.sh, minimal-build.bat has not been opened and is
\* as it was when the run began; a failure on minimal-build.bat leaves
\* minimal-build.sh written and executable.
C7_FailureEndsRun ==
  /\ (exc # NoExc) <=> (pc = "failed")
  /\ pc = "failed" => ~ENABLED Next
  /\ \A n \in Names : opens[n] <= 1
  /\ (pc = "failed" /\ exc.file = ShName) =>
       /\ opens[BatName] = 0
       /\ fs[BatName] = fsPrev[BatName]
  /\ (pc = "failed" /\ exc.file = BatName) =>
       /\ fs[ShName].content = minimal_build_script
       /\ OwnerExecutable(fs[ShName])

C7_Witness ==
  /\ pc = "failed"
  /\ exc.file = ShName
  /\ exc.at = "chmod_sh"
  /\ CanOpenW(fs, env, BatName)
  /\ fs[BatName] = fsStart[BatName]

\* C9: the descriptor of an output file is open only between its open() and
\* the end of its with-block: it is closed at the chmod, when the other file
\* is opened, when the run is done and when the run has failed, also when
\* the flush of the write failed.
C9_HandleReleased ==
  /\ ShName \in openFds => pc \in {"write_sh", "exit_sh"}
  /\ BatName \in openFds => pc \in {"write_bat", "exit_bat"}
  /\ pc \in {"chmod_sh", "open_bat", "done", "failed"} => openFds = {}

C9_Witness ==
  /\ pc = "failed"
  /\ exc.at = "exit_sh"
  /\ opens[ShName] = 1
  /\ openFds = {}

\* C10: when the confirmation of minimal-build.sh has been printed, the file
\* holds the whole Unix template and is owner-executable; when the
\* confirmation of minimal-build.bat has been printed, the file holds the
\* whole Windows template and the other confirmation came before it; a run
\* that failed on a file has printed no confirmation for it or a later one.
C10_ConfirmationMeansComplete ==
  /\ (\E i \in 1..Len(stdout) : stdout[i] = "<U+2713> Created minimal-build.sh") =>
       /\ Exists(ShName)
       /\ fs[ShName].content = minimal_build_script
       /\ OwnerExecutable(fs[ShName])
  /\ (\E i \in 1..Len(stdout) : stdout[i] = "<U+2713> Created minimal-build.bat") =>
       /\ Exists(BatName)
       /\ fs[BatName].content = minimal_build_bat
       /\ stdout = << "<U+2713> Created minimal-build.sh",
                      "<U+2713> Created minimal-build.bat" >>
  /\ (pc = "failed" /\ exc.file = ShName) => stdout = <<>>
  /\ (pc = "failed" /\ exc.file = BatName) =>
       stdout = << "<U+2713> Created minimal-build.sh" >>

C10_Witness ==
  /\ pc = "failed"
  /\ exc.file = BatName
  /\ exc.at = "exit_bat"
  /\ fs[BatName].content # minimal_build_bat
  /\ stdout = << "<U+2713> Created minimal-build.sh" >>

----------------------------------------------------------------------------
(* Properties of the generated scripts *)

Echoes(lines) == SelectSeq(lines, LAMBDA l : l.kind = "echo")

\* the lines before the branch, the lines printed on success and the lines
\* printed on failure (creator.py lines 2-15, 17-30, 32-39 and 52-67, 69-82,
\* 84-91)
Preamble(name) ==
  IF name = "minimal-build.sh" THEN SubSeq(minimal_build_script, 1, 14)
  ELSE SubSeq(minimal_build_bat, 1, 16)
SuccessBlock(name) ==
  IF name = "minimal-build.sh" THEN SubSeq(minimal_build_script, 16, 29)
  ELSE SubSeq(minimal_build_bat, 18, 31)
FailureBlock(name) ==
  IF name = "minimal-build.sh" THEN SubSeq(minimal_build_script, 31, 38)
  ELSE SubSeq(minimal_build_bat, 33, 40)

\* the commands issued so far are cargo clean, then cargo tauri build
CleanThenBuild(cmds) ==
  /\ Len(cmds) <= 2
  /\ Len(cmds) >= 1 => cmds[1].cmd = "clean"
  /\ Len(cmds) >= 2 => cmds[2].cmd = "build"

BuildStatus(name) == results[name].cmds[2].status
ShowsSuccess(name) ==
  \E i \in 1..Len(results[name].out) :
    results[name].out[i] \in
      { L("echo", "    echo \"<U+1F389> SUCCESS! Desktop app built successfully!\""),
        L("echo", "    echo <U+1F389> SUCCESS! Desktop app built successfully!") }
ShowsFailure(name) ==
  \E i \in 1..Len(results[name].out) :
    results[name].out[i] \in
      { L("echo", "    echo \"<U+274C> Build failed. Check the error above.\""),
        L("echo", "    echo <U+274C> Build failed. Check the error above.") }

\* C8: each generated script, when executed, issues cargo clean before cargo
\* tauri build, issues the build whatever the exit status of the clean,
\* and prints exactly one message block after the preamble: the success
\* block iff the build exited with status 0, else the failure block; for the
\* same build status (zero or not) the two scripts take the same branch.
C8_ScriptsCleanBuildBranch ==
  /\ x # Idle => CleanThenBuild(x.cmds)
  /\ \A n \in {ShName, BatName} :
       results[n].ran =>
         /\ Len(results[n].cmds) = 2
         /\ CleanThenBuild(results[n].cmds)
         /\ results[n].out =
              Echoes(Preamble(n)) \o
                (IF BuildStatus(n) = 0 THEN Echoes(SuccessBlock(n))
                 ELSE Echoes(FailureBlock(n)))
         /\ ShowsSuccess(n) <=> BuildStatus(n) = 0
         /\ ShowsFailure(n) <=> BuildStatus(n) # 0
  /\ (results[ShName].ran /\ results[BatName].ran
        /\ ((BuildStatus(ShName) = 0) <=> (BuildStatus(BatName) = 0)))
       => (ShowsSuccess(ShName) <=> ShowsSuccess(BatName))

C8_Witness ==
  /\ results[ShName].ran
  /\ results[BatName].ran
  /\ results[ShName].cmds[1].status # 0
  /\ BuildStatus(ShName) # 0
  /\ BuildStatus(BatName) # 0
  /\ ShowsFailure(ShName) /\ ShowsFailure(BatName)
  /\ ~ShowsSuccess(ShName) /\ ~ShowsSuccess(BatName)

====
